---- MODULE Spec2Model ----
(***************************************************************************)
(* The dice-evaluation engine of dnd_dice_roller: Dice -> DiceSet -> Roll. *)
(* One Roll value is built, with Roll::new or from a text by from_str,     *)
(* then evaluated with roll_from_rng against a random source; the          *)
(* evaluation is followed call by call and draw by draw, and its results   *)
(* are formatted.  Integers keep the code's types (u32 draws and sums, i32 *)
(* totals) at a scaled-down width of Bits bits.                            *)
(***************************************************************************)
EXTENDS Integers, Sequences, FiniteSets, TLC

(***************************************************************************)
(* Bounds of the model.                                                    *)
(***************************************************************************)
\* Width of the machine integers of the model (u32 and i32 in the code).
Bits == 3
\* Largest number_of_dice_to_roll of a Dice.
MaxCount == 2
\* Largest word the random source produces.
MaxRaw == 2
\* Largest number of Dice in a DiceSet and of DiceSets in a Roll.
MaxDice == 2
MaxSets == 2
\* Most words a Roll of several Dice may draw in one evaluation, and a Roll
\* that is evaluated a second time.
MaxDraws == 3

(***************************************************************************)
(* Machine integers.                                                       *)
(***************************************************************************)
Modulus == 2 ^ Bits
\* u32::MAX, i32::MAX, i32::MIN at the model's width.
U32_MAX == Modulus - 1
I32_MAX == (Modulus \div 2) - 1
I32_MIN == 0 - (Modulus \div 2)

\* A computation either yields a value or panics.
Ok(v) == [ok |-> TRUE, val |-> v, msg |-> "none"]
Panic(m) == [ok |-> FALSE, val |-> 0, msg |-> m]

\* Two's complement reduction of an integer into the i32 range.
wrap_i32(x) == ((x - I32_MIN) % Modulus) + I32_MIN

\* `u as i32`: never panics, wraps above i32::MAX in every build.
as_i32(u) == IF u > I32_MAX THEN u - Modulus ELSE u

\* u32 `+`: panics with overflow checks on, wraps without.
add_u32(checks, a, b) ==
    IF a + b <= U32_MAX THEN Ok(a + b)
    ELSE IF checks THEN Panic("attempt to add with overflow")
    ELSE Ok((a + b) % Modulus)

\* i32 `+` and `-`.
add_i32(checks, a, b) ==
    IF a + b >= I32_MIN /\ a + b <= I32_MAX THEN Ok(a + b)
    ELSE IF checks THEN Panic("attempt to add with overflow")
    ELSE Ok(wrap_i32(a + b))

sub_i32(checks, a, b) ==
    IF a - b >= I32_MIN /\ a - b <= I32_MAX THEN Ok(a - b)
    ELSE IF checks THEN Panic("attempt to subtract with overflow")
    ELSE Ok(wrap_i32(a - b))

(***************************************************************************)
(* Option<T>: None is the empty sequence, Some(x) the sequence <<x>>.      *)
(***************************************************************************)
None == <<>>
Some(x) == <<x>>
unwrap_or(o, d) == IF o = None THEN d ELSE o[1]

(***************************************************************************)
(* The data model.                                                         *)
(***************************************************************************)
RollType == {"Advantage", "Disadvantage", "Regular"}
Operation == {"Addition", "Subtraction"}

\* Side counts and modifiers the model builds Dice from.
Sides == (0..(MaxRaw + 1)) \cup {U32_MAX}
Modifiers == {None, Some(1), Some(-1)}

\* Dice::new
Dice(n, s, m, t, o) ==
    [number_of_dice_to_roll |-> n, sides |-> s, modifier |-> m,
     roll_type |-> t, operation |-> o]

DiceValues ==
    {Dice(n, s, m, t, o) : n \in 0..MaxCount, s \in Sides, m \in Modifiers,
                           t \in RollType, o \in Operation}

\* RollResult::new
RollResult(first, second, result) ==
    [first_roll |-> first, second_roll |-> second, result |-> result]

\* DiceSetResults::new
DiceSetResults(results, total) ==
    [dice_results |-> results, final_result |-> total]

(***************************************************************************)
(* Display for RollResult.                                                 *)
(***************************************************************************)
\* `{:?}` of a Vec<u32>: "[", the entries in order, each after the first
\* preceded by ", ", then "]".
RECURSIVE debug_entries(_, _)
debug_entries(v, n) ==
    IF n = 0 THEN ""
    ELSE debug_entries(v, n - 1) \o (IF n > 1 THEN ", " ELSE "") \o ToString(v[n])

debug_list(v) == "[" \o debug_entries(v, Len(v)) \o "]"

\* fmt with the result written after the rolls.
fmt_with_result(rr) ==
    IF rr.second_roll = None
    THEN debug_list(rr.first_roll) \o " = " \o ToString(rr.result)
    ELSE "[" \o debug_list(rr.first_roll) \o ", "
             \o debug_list(rr.second_roll[1]) \o "] = " \o ToString(rr.result)

\* <RollResult as Display>::fmt
fmt(rr) ==
    IF rr.second_roll = None THEN debug_list(rr.first_roll)
    ELSE "[" \o debug_list(rr.first_roll) \o ", "
             \o debug_list(rr.second_roll[1]) \o "]"

(***************************************************************************)
(* Construction from text.  dice_command_parser::parse_line is outside the *)
(* crate: what it returns for a text is an input of the model, either the  *)
(* parsed description (a Vec of Vecs of DiceRoll) or a ParserError.        *)
(***************************************************************************)
\* Result<T, E>
Result_Ok(v) == [tag |-> "Ok", value |-> v]
Result_Err(e) == [tag |-> "Err", error |-> e]

\* dice_command_parser::dice_roll::RollType and ::Operation
CommandRollType == {"Regular", "WithAdvantage", "WithDisadvantage"}
CommandOperation == {"Addition", "Subtraction"}

\* dice_command_parser::dice_roll::DiceRoll
DiceRoll(n, s, m, t, o) ==
    [number_of_dice_to_roll |-> n, dice_sides |-> s, modifier |-> m,
     roll_type |-> t, operation |-> o]

\* The diagnostics of the parser.
ParserError == {"ParseError", "Unknown"}

\* DiceError, and the From<ParserError> that #[from] derives.
DiceError_ParseError(e) == [variant |-> "ParseError", source |-> e]
DiceError_Unknown == [variant |-> "Unknown", source |-> "none"]
DiceError_from(e) == DiceError_ParseError(e)

\* from_parsed_roll_type with the two arms that roll twice exchanged.
from_parsed_roll_type_swapped(t) ==
    CASE t = "Regular" -> "Regular"
      [] t = "WithAdvantage" -> "Disadvantage"
      [] t = "WithDisadvantage" -> "Advantage"

\* The match on parsed_roll.roll_type in from_parsed_dice_roll.
from_parsed_roll_type(t) ==
    CASE t = "Regular" -> "Regular"
      [] t = "WithAdvantage" -> "Advantage"
      [] t = "WithDisadvantage" -> "Disadvantage"

\* The operation of the Dice built from a parsed description: the sign the
\* parser resolved.
from_parsed_operation(o) ==
    CASE o = "Addition" -> "Addition"
      [] o = "Subtraction" -> "Subtraction"

\* Dice::from_parsed_dice_roll
from_parsed_dice_roll(parsed_roll) ==
    Dice(parsed_roll.number_of_dice_to_roll,
         parsed_roll.dice_sides,
         parsed_roll.modifier,
         from_parsed_roll_type(parsed_roll.roll_type),
         from_parsed_operation(parsed_roll.operation))

\* DiceSet::new over the Dice mapped from one parsed set, in order.
DiceSet_from_parsed(dice) ==
    [k \in 1..Len(dice) |-> from_parsed_dice_roll(dice[k])]

\* Roll::new over the DiceSets mapped from the parsed sets, in order.
Roll_from_parsed(parsed) ==
    [s \in 1..Len(parsed) |-> DiceSet_from_parsed(parsed[s])]

\* from_str with the parser's error replaced by an empty value.
from_str_or_default(parsed) ==
    IF parsed.tag = "Err" THEN Result_Ok(<<>>)
    ELSE Result_Ok(Roll_from_parsed(parsed.value))

\* Roll::from_str on what parse_line returned: `?` returns the error,
\* converted, before anything is mapped.
from_str(parsed) ==
    IF parsed.tag = "Err" THEN Result_Err(DiceError_from(parsed.error))
    ELSE Result_Ok(Roll_from_parsed(parsed.value))

(***************************************************************************)
(* Pure parts of the evaluation.                                           *)
(***************************************************************************)
\* rng.gen_range(low, high) for low < high: a value of [low, high) fixed by
\* the word the generator produces.
gen_range(raw, low, high) == low + (raw % (high - low))

\* HighBound with an inclusive bound taken for an exclusive one.
HighBound_plus_two(checks, d) == add_u32(checks, d.sides, 2)

\* The exclusive upper bound handed to gen_range: `&self.sides + 1` in u32.
HighBound(checks, d) == add_u32(checks, d.sides, 1)

\* The bound of both draw loops: `0..self.number_of_dice_to_roll`.
LoopBound(d) == d.number_of_dice_to_roll

\* RollsTwice with the Disadvantage arm left out of the match.
RollsTwice_advantage_only(d) == d.roll_type = "Advantage"

\* RollsTwice with the Regular arm drawing a second sequence too.
RollsTwice_always(d) == d.roll_type \in RollType

\* Whether the match on roll_type draws a second sequence.
RollsTwice(d) == d.roll_type \in {"Advantage", "Disadvantage"}

\* iter().sum::<u32>(): a left fold of u32 `+` from 0.
RECURSIVE sum_u32(_, _)
sum_u32(checks, s) ==
    IF s = <<>> THEN Ok(0)
    ELSE LET acc == sum_u32(checks, SubSeq(s, 1, Len(s) - 1))
         IN  IF ~acc.ok THEN acc ELSE add_u32(checks, acc.val, s[Len(s)])

\* Option::expect
expect(o, m) == IF o = None THEN Panic(m) ELSE Ok(o[1])

max(a, b) == IF a >= b THEN a ELSE b
min(a, b) == IF a <= b THEN a ELSE b

\* One candidate: `<draws>.iter().sum::<u32>() as i32 + modifier`.
Candidate(checks, draws, modifier) ==
    LET s == sum_u32(checks, draws)
    IN  IF ~s.ok THEN s ELSE add_i32(checks, as_i32(s.val), modifier)

\* Pick with max and min exchanged.
Pick_swapped(t, a, b) == IF t = "Advantage" THEN min(a, b) ELSE max(a, b)

\* The choice between the two candidates of an Advantage or Disadvantage roll.
Pick(t, a, b) == IF t = "Advantage" THEN max(a, b) ELSE min(a, b)

\* The match that computes `result` in roll_dice_from_rng.
DiceTotal(checks, d, first, second) ==
    LET modifier == unwrap_or(d.modifier, 0)
    IN  IF d.roll_type = "Regular" THEN Candidate(checks, first, modifier)
        ELSE LET second_roll ==
                     expect(second, "Expect roll to have second roll results")
                 first_sum == sum_u32(checks, first)
             IN  IF ~first_sum.ok THEN first_sum
                 ELSE IF ~second_roll.ok THEN second_roll
                 ELSE LET b_sum == sum_u32(checks, second_roll.val)
                          a == add_i32(checks, as_i32(first_sum.val), modifier)
                      IN  IF ~b_sum.ok THEN b_sum
                          ELSE IF ~a.ok THEN a
                          ELSE LET b == add_i32(checks, as_i32(b_sum.val), modifier)
                               IN  IF ~b.ok THEN b
                                   ELSE Ok(Pick(d.roll_type, a.val, b.val))

\* One step of the fold of roll_dice_set_from_rng, on the index-th result.
FoldStep(checks, dice, acc, index, roll) ==
    IF index > Len(dice) THEN Panic("called Option::unwrap() on a None value")
    ELSE IF dice[index].operation = "Addition"
         THEN add_i32(checks, acc, roll.result)
         ELSE sub_i32(checks, acc, roll.result)

\* results.iter().enumerate().fold(0, ...) over the first n results.
RECURSIVE Fold(_, _, _, _)
Fold(checks, dice, results, n) ==
    IF n = 0 THEN Ok(0)
    ELSE LET acc == Fold(checks, dice, results, n - 1)
         IN  IF ~acc.ok THEN acc
             ELSE FoldStep(checks, dice, acc.val, n, results[n])

(***************************************************************************)
(* The values evaluated.                                                   *)
(***************************************************************************)
SeqsUpTo(S, n) == UNION {[1..k -> S] : k \in 0..n}

\* Rolls of one DiceSet of one Dice, over every Dice of the model.
SingleDiceRolls == {<< <<d>> >> : d \in DiceValues}

\* The Dice the larger Rolls are built from: one die each, no modifier.
SmallDice ==
    {d \in DiceValues : /\ d.number_of_dice_to_roll = 1
                        /\ d.sides = 2
                        /\ d.modifier = None
                        /\ d.roll_type # "Disadvantage"}

\* The words one evaluation of a Dice, a DiceSet, a Roll asks for.
DiceDraws(d) ==
    d.number_of_dice_to_roll * (IF d.roll_type = "Regular" THEN 1 ELSE 2)

RECURSIVE SetDraws(_)
SetDraws(dice) ==
    IF dice = <<>> THEN 0
    ELSE SetDraws(SubSeq(dice, 1, Len(dice) - 1)) + DiceDraws(dice[Len(dice)])

RECURSIVE RollDraws(_)
RollDraws(dice_sets) ==
    IF dice_sets = <<>> THEN 0
    ELSE RollDraws(SubSeq(dice_sets, 1, Len(dice_sets) - 1))
         + SetDraws(dice_sets[Len(dice_sets)])

\* Roll::new over DiceSet::new over Dice::new.
Rolls ==
    SingleDiceRolls \cup
    {r \in SeqsUpTo(SeqsUpTo(SmallDice, MaxDice), MaxSets) :
        RollDraws(r) <= MaxDraws}

\* The descriptions parse_line returns: one DiceRoll of at most one die and
\* of any other shape, or sets of small ones, MaxDice dice in all.
DiceRolls ==
    {DiceRoll(n, s, m, t, o) : n \in 0..1, s \in Sides, m \in Modifiers,
                               t \in CommandRollType, o \in CommandOperation}

SmallDiceRolls ==
    {d \in DiceRolls : /\ d.number_of_dice_to_roll = 1
                       /\ d.dice_sides = 2
                       /\ d.modifier = None
                       /\ d.roll_type = "Regular"}

ParsedLines ==
    {<< <<d>> >> : d \in DiceRolls} \cup
    {p \in SeqsUpTo(SeqsUpTo(SmallDiceRolls, MaxDice), MaxSets) :
        RollDraws(Roll_from_parsed(p)) <= MaxDice}

\* What parse_line can return for a text.
ParseOutcomes ==
    {Result_Err(e) : e \in ParserError} \cup {Result_Ok(p) : p \in ParsedLines}

(***************************************************************************)
(* State.                                                                  *)
(***************************************************************************)
VARIABLES
    roll,                 \* Roll.dice_sets: a sequence of DiceSet.dice sequences
    overflow_checks,      \* whether the build panics on integer overflow
    stream,               \* the words the seeded generator has produced so far
    pos,                  \* how many words this evaluation has consumed
    pc,                   \* where the evaluation stands
    panic_msg,            \* the panic that ended the evaluation, or "none"
    set_idx,              \* the DiceSet roll_from_rng's map is at
    dice_idx,             \* the Dice roll_dice_set_from_rng's map is at
    first_roll_results,   \* roll_dice_from_rng's first Vec
    second_roll_results,  \* roll_dice_from_rng's Option<Vec>
    results,              \* roll_dice_set_from_rng's Vec<RollResult>
    out,                  \* the Vec<DiceSetResults> roll_from_rng collects
    prev_out,             \* what the evaluation before this one returned, if any
    input,                \* what parse_line returns for the text, if built from text
    from_str_result,      \* what Roll::from_str returned, once it has
    rendered,             \* the results as the caller has formatted them, if it has
    dice_start            \* the position of the source when roll_dice_from_rng was called

vars == <<roll, overflow_checks, stream, pos, pc, panic_msg, set_idx, dice_idx,
          first_roll_results, second_roll_results, results, out, prev_out,
          input, from_str_result, rendered, dice_start>>

\* The DiceSet and the Dice under evaluation.
CurSet == roll[set_idx]
CurDice == roll[set_idx][dice_idx]

\* The value is either built by the caller with Roll::new, or is still to
\* be built from a text by Roll::from_str.
Init ==
    /\ \/ /\ roll \in Rolls
          /\ input = None
          /\ pc = "idle"
       \/ /\ roll = <<>>
          /\ input \in {Some(r) : r \in ParseOutcomes}
          /\ pc = "text"
    /\ from_str_result = None
    /\ rendered = None
    /\ dice_start = 0
    /\ overflow_checks \in BOOLEAN
    /\ stream = <<>>
    /\ pos = 0
    /\ panic_msg = "none"
    /\ set_idx = 1
    /\ dice_idx = 1
    /\ first_roll_results = <<>>
    /\ second_roll_results = None
    /\ results = <<>>
    /\ out = <<>>
    /\ prev_out = None

\* A panic unwinds out of the evaluation: nothing is returned.
Unwind(m) ==
    /\ pc' = "panic"
    /\ panic_msg' = m

\* The words a source can produce for a draw from a range of n values: a
\* word stands for all those gen_range maps to the same value.
Words(n) == 0..(IF n - 1 < MaxRaw THEN n - 1 ELSE MaxRaw)

\* NextWords of a source that is not the one passed in (rand::thread_rng(),
\* as roll_dice uses): any word, whatever the seed produced before.
NextWords_thread_rng(n) == Words(n)

\* The words the generator can produce next: the stream of a seed is fixed,
\* so a position already produced is read again, a new one is any word.
NextWords(n) == IF pos < Len(stream) THEN {stream[pos + 1]} ELSE Words(n)

Produce(raw) ==
    /\ stream' = (IF pos < Len(stream) THEN stream ELSE Append(stream, raw))
    /\ pos' = pos + 1

(***************************************************************************)
(* Roll::from_str                                                          *)
(***************************************************************************)
\* The caller hands a text to from_str and keeps the Roll of an Ok; on an Err
\* it has no Roll to evaluate.
Roll_from_str ==
    /\ pc = "text"
    /\ LET r == from_str(input[1])
       IN  /\ from_str_result' = Some(r)
           /\ IF r.tag = "Ok"
              THEN roll' = r.value /\ pc' = "idle"
              ELSE UNCHANGED roll /\ pc' = "rejected"
    /\ UNCHANGED <<overflow_checks, stream, pos, panic_msg, set_idx, dice_idx,
                   first_roll_results, second_roll_results, results, out,
                   prev_out, input, rendered, dice_start>>

(***************************************************************************)
(* Roll::roll_from_rng                                                     *)
(***************************************************************************)
roll_from_rng ==
    /\ pc = "idle"
    /\ UNCHANGED <<input, from_str_result, rendered, dice_start>>
    /\ pc' = "sets"
    /\ set_idx' = 1
    /\ out' = <<>>
    /\ UNCHANGED <<roll, overflow_checks, stream, pos, panic_msg, dice_idx,
                   first_roll_results, second_roll_results, results, prev_out>>

\* Return of a roll_from_rng that drains dice_sets instead of borrowing it.
Return_drained ==
    /\ pc = "sets"
    /\ UNCHANGED <<input, from_str_result, rendered, dice_start>>
    /\ set_idx > Len(roll)
    /\ pc' = "done"
    /\ roll' = <<>>
    /\ UNCHANGED <<overflow_checks, stream, pos, panic_msg, set_idx,
                   dice_idx, first_roll_results, second_roll_results, results,
                   out, prev_out>>

\* collect(): every DiceSet has been mapped.
Return ==
    /\ pc = "sets"
    /\ UNCHANGED <<input, from_str_result, rendered, dice_start>>
    /\ set_idx > Len(roll)
    /\ pc' = "done"
    /\ UNCHANGED <<roll, overflow_checks, stream, pos, panic_msg, set_idx,
                   dice_idx, first_roll_results, second_roll_results, results,
                   out, prev_out>>

(***************************************************************************)
(* DiceSet::roll_dice_set_from_rng                                         *)
(***************************************************************************)
\* roll_dice_set_from_rng handed a source seeded anew for each DiceSet.
roll_dice_set_from_rng_reseeded ==
    /\ pc = "sets"
    /\ UNCHANGED <<input, from_str_result, rendered, dice_start>>
    /\ set_idx <= Len(roll)
    /\ pc' = "dice"
    /\ dice_idx' = 1
    /\ results' = <<>>
    /\ pos' = 0
    /\ UNCHANGED <<roll, overflow_checks, stream, panic_msg, set_idx,
                   first_roll_results, second_roll_results, out, prev_out>>

roll_dice_set_from_rng ==
    /\ pc = "sets"
    /\ UNCHANGED <<input, from_str_result, rendered, dice_start>>
    /\ set_idx <= Len(roll)
    /\ pc' = "dice"
    /\ dice_idx' = 1
    /\ results' = <<>>
    /\ UNCHANGED <<roll, overflow_checks, stream, pos, panic_msg, set_idx,
                   first_roll_results, second_roll_results, out, prev_out>>

\* The fold over the collected results, and DiceSetResults::new.
FoldTotal ==
    /\ pc = "dice"
    /\ UNCHANGED <<input, from_str_result, rendered, dice_start>>
    /\ dice_idx > Len(CurSet)
    /\ LET total == Fold(overflow_checks, CurSet, results, Len(results))
       IN  IF total.ok
           THEN /\ out' = Append(out, DiceSetResults(results, total.val))
                /\ set_idx' = set_idx + 1
                /\ pc' = "sets"
                /\ UNCHANGED panic_msg
           ELSE /\ Unwind(total.msg)
                /\ UNCHANGED <<out, set_idx>>
    /\ UNCHANGED <<roll, overflow_checks, stream, pos, dice_idx,
                   first_roll_results, second_roll_results, results, prev_out>>

(***************************************************************************)
(* Dice::roll_dice_from_rng                                                *)
(***************************************************************************)
\* roll_dice_from_rng handed a source seeded anew for each Dice.
roll_dice_from_rng_reseeded ==
    /\ pc = "dice"
    /\ UNCHANGED <<input, from_str_result, rendered>>
    /\ dice_start' = 0
    /\ dice_idx <= Len(CurSet)
    /\ pc' = "first"
    /\ first_roll_results' = <<>>
    /\ second_roll_results' = None
    /\ pos' = 0
    /\ UNCHANGED <<roll, overflow_checks, stream, panic_msg, set_idx,
                   dice_idx, results, out, prev_out>>

roll_dice_from_rng ==
    /\ pc = "dice"
    /\ UNCHANGED <<input, from_str_result, rendered>>
    /\ dice_start' = pos
    /\ dice_idx <= Len(CurSet)
    /\ pc' = "first"
    /\ first_roll_results' = <<>>
    /\ second_roll_results' = None
    /\ UNCHANGED <<roll, overflow_checks, stream, pos, panic_msg, set_idx,
                   dice_idx, results, out, prev_out>>

\* The body of the first loop: first_roll_results.push(rng.gen_range(..)).
DrawFirst ==
    /\ pc = "first"
    /\ UNCHANGED <<input, from_str_result, rendered, dice_start>>
    /\ Len(first_roll_results) < LoopBound(CurDice)
    /\ LET high == HighBound(overflow_checks, CurDice)
       IN  IF ~high.ok
           THEN Unwind(high.msg) /\ UNCHANGED <<stream, pos, first_roll_results>>
           ELSE IF ~(1 < high.val)
           THEN /\ Unwind("Uniform::sample_single: low >= high")
                /\ UNCHANGED <<stream, pos, first_roll_results>>
           ELSE \E raw \in NextWords(high.val - 1) :
                    /\ Produce(raw)
                    /\ first_roll_results' =
                           Append(first_roll_results, gen_range(raw, 1, high.val))
                    /\ UNCHANGED <<pc, panic_msg>>
    /\ UNCHANGED <<roll, overflow_checks, set_idx, dice_idx,
                   second_roll_results, results, out, prev_out>>

\* SecondRoll with the second loop drawing from a copy of the source taken
\* when roll_dice_from_rng was called.
SecondRoll_cloned_rng ==
    /\ pc = "first"
    /\ UNCHANGED <<input, from_str_result, rendered, dice_start>>
    /\ Len(first_roll_results) >= LoopBound(CurDice)
    /\ pc' = "second"
    /\ second_roll_results' = (IF RollsTwice(CurDice) THEN Some(<<>>) ELSE None)
    /\ pos' = (IF RollsTwice(CurDice) THEN dice_start ELSE pos)
    /\ UNCHANGED <<roll, overflow_checks, stream, panic_msg, set_idx,
                   dice_idx, first_roll_results, results, out, prev_out>>

\* The match on roll_type once the first loop is over.
SecondRoll ==
    /\ pc = "first"
    /\ UNCHANGED <<input, from_str_result, rendered, dice_start>>
    /\ Len(first_roll_results) >= LoopBound(CurDice)
    /\ pc' = "second"
    /\ second_roll_results' = (IF RollsTwice(CurDice) THEN Some(<<>>) ELSE None)
    /\ UNCHANGED <<roll, overflow_checks, stream, pos, panic_msg, set_idx,
                   dice_idx, first_roll_results, results, out, prev_out>>

\* The body of the second loop.
DrawSecond ==
    /\ pc = "second"
    /\ UNCHANGED <<input, from_str_result, rendered, dice_start>>
    /\ second_roll_results # None
    /\ Len(second_roll_results[1]) < LoopBound(CurDice)
    /\ LET high == HighBound(overflow_checks, CurDice)
       IN  IF ~high.ok
           THEN Unwind(high.msg) /\ UNCHANGED <<stream, pos, second_roll_results>>
           ELSE IF ~(1 < high.val)
           THEN /\ Unwind("Uniform::sample_single: low >= high")
                /\ UNCHANGED <<stream, pos, second_roll_results>>
           ELSE \E raw \in NextWords(high.val - 1) :
                    /\ Produce(raw)
                    /\ second_roll_results' =
                           Some(Append(second_roll_results[1],
                                       gen_range(raw, 1, high.val)))
                    /\ UNCHANGED <<pc, panic_msg>>
    /\ UNCHANGED <<roll, overflow_checks, set_idx, dice_idx,
                   first_roll_results, results, out, prev_out>>

\* The match that computes the result, and the value returned to the map of
\* roll_dice_set_from_rng.
ComputeResult ==
    /\ pc = "second"
    /\ UNCHANGED <<input, from_str_result, rendered, dice_start>>
    /\ IF second_roll_results = None THEN TRUE
       ELSE Len(second_roll_results[1]) >= LoopBound(CurDice)
    /\ LET result == DiceTotal(overflow_checks, CurDice, first_roll_results,
                               second_roll_results)
       IN  IF result.ok
           THEN /\ results' = Append(results,
                                     RollResult(first_roll_results,
                                                second_roll_results, result.val))
                /\ dice_idx' = dice_idx + 1
                /\ pc' = "dice"
                /\ UNCHANGED panic_msg
           ELSE /\ Unwind(result.msg)
                /\ UNCHANGED <<results, dice_idx>>
    /\ UNCHANGED <<roll, overflow_checks, stream, pos, set_idx,
                   first_roll_results, second_roll_results, out, prev_out>>

(***************************************************************************)
(* The caller: a second evaluation of the same value, its random source    *)
(* seeded again with the same seed.  It evaluates again the Rolls that     *)
(* draw at most MaxDraws words.                                            *)
(***************************************************************************)
Reseed ==
    /\ pc = "done"
    /\ RollDraws(roll) <= MaxDraws
    /\ UNCHANGED <<input, from_str_result, rendered, dice_start>>
    /\ prev_out = None
    /\ prev_out' = Some(out)
    /\ pos' = 0
    /\ pc' = "idle"
    /\ UNCHANGED <<roll, overflow_checks, stream, panic_msg, set_idx, dice_idx,
                   first_roll_results, second_roll_results, results, out>>

(***************************************************************************)
(* The caller formats every RollResult returned with `{}`.                 *)
(***************************************************************************)
format_results ==
    /\ pc = "done"
    /\ pc' = "shown"
    /\ rendered' = Some([s \in 1..Len(out) |->
                            [k \in 1..Len(out[s].dice_results) |->
                                fmt(out[s].dice_results[k])]])
    /\ UNCHANGED <<roll, overflow_checks, stream, pos, panic_msg, set_idx,
                   dice_idx, first_roll_results, second_roll_results, results,
                   out, prev_out, input, from_str_result, dice_start>>

Next ==
    \/ format_results
    \/ Roll_from_str
    \/ roll_from_rng
    \/ Return
    \/ roll_dice_set_from_rng
    \/ FoldTotal
    \/ roll_dice_from_rng
    \/ DrawFirst
    \/ SecondRoll
    \/ DrawSecond
    \/ ComputeResult
    \/ Reseed

Spec == Init /\ [][Next]_vars

(***************************************************************************)
(* What the claims speak of.                                               *)
(***************************************************************************)
\* Whether the locals of roll_dice_set_from_rng are live.
InSet == pc \in {"dice", "first", "second"}

\* The (Dice, RollResult) pairs roll_dice_from_rng has returned in this
\* evaluation: those of the collected DiceSetResults and of the set in progress.
Evaluated ==
    {<<roll[s][k], out[s].dice_results[k]>> :
        <<s, k>> \in {<<s, k>> \in (1..Len(out)) \X (1..MaxDice + 1) :
                         k <= Len(out[s].dice_results)}}
    \cup (IF InSet THEN {<<CurSet[k], results[k]>> : k \in 1..Len(results)}
          ELSE {})

\* The draw sequences of a RollResult and those of the Dice being rolled.
DrawSeqs(rr) ==
    {rr.first_roll} \cup (IF rr.second_roll = None THEN {} ELSE {rr.second_roll[1]})

AllIn(draws, lo, hi) == \A i \in 1..Len(draws) : draws[i] >= lo /\ draws[i] <= hi

\* C1: every value roll_dice_from_rng places in first_roll or second_roll of
\* a Dice with sides >= 1 lies in [1, sides], in the results returned and in
\* the vectors being filled.
C1_DrawsWithinSides ==
    /\ \A e \in Evaluated :
           e[1].sides >= 1 =>
               \A draws \in DrawSeqs(e[2]) : AllIn(draws, 1, e[1].sides)
    /\ pc \in {"first", "second"} /\ CurDice.sides >= 1 =>
           /\ AllIn(first_roll_results, 1, CurDice.sides)
           /\ second_roll_results # None =>
                  AllIn(second_roll_results[1], 1, CurDice.sides)

\* C1 witness: a returned RollResult of two draws each way holds both ends
\* of the range of a Dice with more than one side.
C1_Witness ==
    \E e \in Evaluated :
        /\ e[1].sides = MaxRaw + 1
        /\ e[2].first_roll = <<1, e[1].sides>>
        /\ e[2].second_roll = Some(<<e[1].sides, 1>>)

\* C5: in every RollResult returned, first_roll has exactly
\* number_of_dice_to_roll values; second_roll is present exactly when the
\* Dice is Advantage or Disadvantage, and then has as many.
C5_DrawShape ==
    \A e \in Evaluated :
        /\ Len(e[2].first_roll) = e[1].number_of_dice_to_roll
        /\ (e[2].second_roll # None) <=> (e[1].roll_type # "Regular")
        /\ e[2].second_roll # None =>
               Len(e[2].second_roll[1]) = e[1].number_of_dice_to_roll

\* C5 witness: an evaluation has returned the result of a Disadvantage Dice
\* of two dice, with a second_roll of two draws.
C5_Witness ==
    /\ \E e \in Evaluated :
           /\ e[1].roll_type = "Disadvantage"
           /\ e[1].number_of_dice_to_roll = 2
           /\ e[2].second_roll # None
           /\ Len(e[2].second_roll[1]) = 2
    /\ pc = "done"

\* The draws of a RollResult in the order they were taken.
FlatDraws(rr) ==
    rr.first_roll \o (IF rr.second_roll = None THEN <<>> ELSE rr.second_roll[1])

\* The words a sequence of RollResults took from the source.
RECURSIVE Consumed(_)
Consumed(rs) ==
    IF rs = <<>> THEN 0
    ELSE Consumed(SubSeq(rs, 1, Len(rs) - 1)) + Len(FlatDraws(rs[Len(rs)]))

\* The words the DiceSetResults before the s-th took from the source.
RECURSIVE SetStart(_)
SetStart(s) ==
    IF s <= 1 THEN 0
    ELSE SetStart(s - 1) + Consumed(out[s - 1].dice_results)

\* The faces a Dice d makes of the n words of the stream after position from.
FacesAt(d, from, n) ==
    [i \in 1..n |-> gen_range(stream[from + i], 1, d.sides + 1)]

\* Whether the results rs are those of the Dice of `dice`, in order, drawn
\* from the consecutive words of the stream that follow position from.
Threaded(dice, rs, from) ==
    /\ Len(rs) <= Len(dice)
    /\ from >= 0
    /\ from + Consumed(rs) <= Len(stream)
    /\ \A k \in 1..Len(rs) :
           /\ Len(FlatDraws(rs[k])) = DiceDraws(dice[k])
           /\ FlatDraws(rs[k]) =
                  FacesAt(dice[k], from + Consumed(SubSeq(rs, 1, k - 1)),
                          Len(FlatDraws(rs[k])))

\* The draws the Dice being rolled has taken so far.
InProgress ==
    IF pc = "dice" THEN 0
    ELSE Len(first_roll_results)
         + (IF second_roll_results = None THEN 0 ELSE Len(second_roll_results[1]))

\* C6: inside roll_dice_set_from_rng the results collected so far are those
\* of the first Dice of the set, one each and in order, and the draws of each
\* are the words of the stream that directly follow the draws of the Dice
\* before it, up to the position the source is at; a collected
\* DiceSetResults holds one RollResult per Dice.
C6_DiceThreadOneSource ==
    /\ InSet =>
           /\ pc = "dice" => Len(results) = dice_idx - 1
           /\ Threaded(CurSet, results, pos - InProgress - Consumed(results))
    /\ \A s \in 1..Len(out) : Len(out[s].dice_results) = Len(roll[s])

\* C6 witness: the second Dice of a set has been rolled after an Advantage
\* Dice that took two words, and drew a face from the third word, which is
\* none of the first two.
C6_Witness ==
    /\ pc = "dice"
    /\ Len(results) = 2
    /\ CurSet[1].roll_type = "Advantage"
    /\ pos = 3
    /\ stream[3] # stream[1]
    /\ stream[3] # stream[2]
    /\ results[2].first_roll = <<gen_range(stream[3], 1, CurSet[2].sides + 1)>>

\* C7: between DiceSets and on return, roll_from_rng holds one
\* DiceSetResults per DiceSet evaluated, in order; the draws of the s-th are
\* the block of the stream that starts where the block of the (s-1)-th ends,
\* the first at the position the source was given in, and the source stands
\* at the end of the last block; on return every DiceSet has its result.
C7_SetsTakeContiguousBlocks ==
    pc \in {"sets", "done"} =>
        /\ Len(out) = set_idx - 1
        /\ pc = "done" => Len(out) = Len(roll)
        /\ pos = SetStart(Len(out) + 1)
        /\ \A s \in 1..Len(out) :
               /\ Len(out[s].dice_results) = Len(roll[s])
               /\ Threaded(roll[s], out[s].dice_results, SetStart(s))

\* C7 witness: a Roll of two DiceSets has returned, the second set having
\* drawn from words after those of the first, which differ from them.
C7_Witness ==
    /\ pc = "done"
    /\ Len(roll) = 2
    /\ Len(out) = 2
    /\ SetStart(2) >= 1
    /\ pos > SetStart(2)
    /\ stream[SetStart(2) + 1] # stream[1]

\* C8: a second evaluation of the same value from the same seed does not
\* panic, returns at every point what the first returned there and in the
\* end the same Vec<DiceSetResults>: draws, component totals, totals.
C8_SameSeedSameResults ==
    prev_out # None =>
        /\ pc # "panic"
        /\ pc \in {"sets", "dice", "first", "second", "done"} =>
               /\ Len(out) <= Len(prev_out[1])
               /\ \A s \in 1..Len(out) : out[s] = prev_out[1][s]
        /\ InSet =>
               /\ Len(out) < Len(prev_out[1])
               /\ Len(results) <= Len(prev_out[1][Len(out) + 1].dice_results)
               /\ \A k \in 1..Len(results) :
                      results[k] = prev_out[1][Len(out) + 1].dice_results[k]
        /\ pc = "done" => out = prev_out[1]

\* C8 witness: the second evaluation of a Roll that draws several different
\* words has returned.
C8_Witness ==
    /\ pc = "done"
    /\ prev_out # None
    /\ pos >= 2
    /\ stream[1] # stream[2]
    /\ out = prev_out[1]

\* A Roll all of whose Dice have at least one side.
WellFormed(dice_sets) ==
    \A s \in 1..Len(dice_sets) :
        \A k \in 1..Len(dice_sets[s]) : dice_sets[s][k].sides >= 1

OverflowPanics ==
    {"attempt to add with overflow", "attempt to subtract with overflow"}

\* C9 as claimed: the evaluation of a Roll whose Dice all have sides >= 1
\* never panics.
C9_NeverPanics == WellFormed(roll) => pc # "panic"

\* C9 as amended: the evaluation of a Roll whose Dice all have sides >= 1
\* panics only on an integer overflow: in a build with overflow checks on an
\* overflowing `+` or `-`, in one without only in gen_range, called with the
\* wrapped bound sides + 1 = 0 of a Dice with sides = u32::MAX.  The expect
\* on the second roll and the unwrap on the dice lookup never panic.
C9_PanicsOnlyOnOverflow ==
    WellFormed(roll) /\ pc = "panic" =>
        \/ overflow_checks /\ panic_msg \in OverflowPanics
        \/ /\ ~overflow_checks
           /\ panic_msg = "Uniform::sample_single: low >= high"
           /\ CurDice.sides = U32_MAX

\* C9 witness: a Disadvantage Dice with at least one side, fewer than
\* u32::MAX, has drawn both sequences and the evaluation has panicked.
C9_Witness ==
    /\ WellFormed(roll)
    /\ pc = "panic"
    /\ dice_idx <= Len(CurSet)
    /\ CurDice.roll_type = "Disadvantage"
    /\ CurDice.sides < U32_MAX
    /\ second_roll_results # None
    /\ Len(second_roll_results[1]) = 2

\* The sum of a sequence of draws, and the signed sum of component totals,
\* as integers.
RECURSIVE SumInt(_)
SumInt(draws) ==
    IF draws = <<>> THEN 0
    ELSE SumInt(SubSeq(draws, 1, Len(draws) - 1)) + draws[Len(draws)]

RECURSIVE SignedSum(_, _)
SignedSum(dice, rs) ==
    IF rs = <<>> THEN 0
    ELSE SignedSum(dice, SubSeq(rs, 1, Len(rs) - 1))
         + (IF dice[Len(rs)].operation = "Addition" THEN rs[Len(rs)].result
            ELSE 0 - rs[Len(rs)].result)

\* The total of a Dice as an integer: the sum of the group plus the
\* modifier, or the larger or smaller of the two such candidates.
ExactTotal(d, rr) ==
    LET m == unwrap_or(d.modifier, 0)
        a == SumInt(rr.first_roll) + m
    IN  IF d.roll_type = "Regular" THEN a
        ELSE LET b == SumInt(rr.second_roll[1]) + m
             IN  IF d.roll_type = "Advantage" THEN max(a, b) ELSE min(a, b)

\* C2 as claimed: the result of an Advantage Dice is the larger, that of a
\* Disadvantage Dice the smaller, of sum(first_roll) + modifier and
\* sum(second_roll) + modifier.
C2_AdvantagePicksGroupSum ==
    \A e \in Evaluated :
        e[1].roll_type # "Regular" /\ e[2].second_roll # None =>
            e[2].result = ExactTotal(e[1], e[2])

\* C3 as claimed: the result of a Regular Dice is sum(first_roll) + modifier.
C3_RegularTotalIsSumPlusModifier ==
    \A e \in Evaluated :
        e[1].roll_type = "Regular" =>
            e[2].result = SumInt(e[2].first_roll) + unwrap_or(e[1].modifier, 0)

\* C4 as claimed: final_result of a DiceSetResults is the sum of its
\* component results, each added for Addition and subtracted for Subtraction.
C4_SetTotalIsSignedFold ==
    \A s \in 1..Len(out) :
        out[s].final_result = SignedSum(roll[s], out[s].dice_results)

\* C10 as claimed: a total that leaves the i32 range is saturated, never
\* wrapped.  Stated where saturation leaves no choice: a Dice with a modifier
\* of at least 0 returns its exact total or i32::MAX, and so does a DiceSet
\* that adds component totals of at least 0.
C10_NoSilentWrap ==
    /\ \A e \in Evaluated :
           unwrap_or(e[1].modifier, 0) >= 0 =>
               e[2].result = min(ExactTotal(e[1], e[2]), I32_MAX)
    /\ \A s \in 1..Len(out) :
           (\A k \in 1..Len(out[s].dice_results) :
                /\ roll[s][k].operation = "Addition"
                /\ out[s].dice_results[k].result >= 0) =>
               out[s].final_result =
                   min(SignedSum(roll[s], out[s].dice_results), I32_MAX)

\* Whether the text handed to from_str is one parse_line fails on.
ParseFails == input # None /\ input[1].tag = "Err"

\* C11: when parse_line fails on the text, from_str returns
\* Err(DiceError::ParseError(e)) with e the parser's own error and no Roll;
\* no evaluation of anything starts, and no word is drawn from a random
\* source.
C11_ParseFailureBuildsNothing ==
    ParseFails =>
        /\ pc \in {"text", "rejected"}
        /\ pc = "rejected" => from_str_result # None
        /\ from_str_result # None =>
               /\ from_str_result[1].tag = "Err"
               /\ from_str_result[1].error = DiceError_ParseError(input[1].error)
        /\ pos = 0
        /\ stream = <<>>
        /\ out = <<>>
        /\ results = <<>>

\* C11 witness: from_str has returned on a text the parser rejected with
\* its Unknown diagnostic.
C11_Witness ==
    /\ ParseFails
    /\ input[1].error = "Unknown"
    /\ pc = "rejected"
    /\ from_str_result # None
    /\ from_str_result[1].error.source = "Unknown"

\* Whether the Roll was built by from_str from a parsed description.
BuiltFromText ==
    /\ input # None
    /\ from_str_result # None
    /\ from_str_result[1].tag = "Ok"

\* The signed sum of component totals under the signs of a parsed set.
RECURSIVE ParsedSignedSum(_, _)
ParsedSignedSum(parsed_set, rs) ==
    IF rs = <<>> THEN 0
    ELSE ParsedSignedSum(parsed_set, SubSeq(rs, 1, Len(rs) - 1))
         + (IF parsed_set[Len(rs)].operation = "Addition" THEN rs[Len(rs)].result
            ELSE 0 - rs[Len(rs)].result)

RECURSIVE CommaSeparated(_)
CommaSeparated(v) ==
    IF v = <<>> THEN ""
    ELSE IF Len(v) = 1 THEN ToString(v[1])
    ELSE ToString(Head(v)) \o ", " \o CommaSeparated(Tail(v))

Bracketed(s) == "[" \o s \o "]"

Rendering(first, second) ==
    IF second = None THEN Bracketed(CommaSeparated(first))
    ELSE Bracketed(Bracketed(CommaSeparated(first)) \o ", "
                   \o Bracketed(CommaSeparated(second[1])))

\* The two renderings the tests of dice_result.rs assert.
RendersTestCases ==
    /\ fmt(RollResult(<<1, 2, 3, 4>>, None, 7)) = "[1, 2, 3, 4]"
    /\ fmt(RollResult(<<4, 2, 1, 3>>, Some(<<5, 2, 3, 4>>), 14))
           = "[[4, 2, 1, 3], [5, 2, 3, 4]]"

\* C13: what the caller gets from formatting a RollResult is the bracketed
\* comma-separated list of first_roll when second_roll is None, and the
\* bracketed pair of the two bracketed lists, first_roll first, when it is
\* Some; the same text comes out whatever the result field holds.  The two
\* renderings the tests of dice_result.rs expect are among the cases.
C13_RenderingIsDrawLists ==
    rendered # None =>
        /\ RendersTestCases
        /\ Len(rendered[1]) = Len(out)
        /\ \A s \in 1..Len(out) :
               /\ Len(rendered[1][s]) = Len(out[s].dice_results)
               /\ \A k \in 1..Len(out[s].dice_results) :
                      LET rr == out[s].dice_results[k]
                      IN  /\ rendered[1][s][k] =
                                 Rendering(rr.first_roll, rr.second_roll)
                          /\ \A t \in I32_MIN..I32_MAX :
                                 fmt([rr EXCEPT !.result = t]) = rendered[1][s][k]

\* C13 witness: the caller has formatted the result of a Dice rolled twice,
\* two draws each time, and got the pair of lists.
C13_Witness ==
    /\ pc = "shown"
    /\ rendered # None
    /\ Len(out) = 1
    /\ Len(out[1].dice_results) = 1
    /\ out[1].dice_results[1].first_roll = <<1, 3>>
    /\ out[1].dice_results[1].second_roll = Some(<<3, 1>>)
    /\ rendered[1][1][1] = "[[1, 3], [3, 1]]"

\* Whether the next step is one of an evaluation: of roll_from_rng or of
\* what it calls.
Evaluating == pc \in {"idle", "sets", "dice", "first", "second"}

\* C14: once the Roll is built no step changes it, so that its DiceSets and
\* their Dice, fields and order, stay as constructed over any number of
\* evaluations; a step of an evaluation changes nothing the caller holds
\* but the random source, which it only advances, by at most one word,
\* past words that stay as they were produced.
C14_EvaluationLeavesValueUnchanged ==
    [][/\ pc # "text" => roll' = roll
       /\ Evaluating =>
              /\ UNCHANGED <<roll, input, from_str_result, rendered, prev_out,
                             overflow_checks>>
              /\ pos' \in {pos, pos + 1}
              /\ Len(stream') >= Len(stream)
              /\ SubSeq(stream', 1, Len(stream)) = stream]_vars

\* C14 witness: a Roll of several Dice built from text has been evaluated
\* twice, words were drawn, and it is still the Roll from_str returned.
C14_Witness ==
    /\ pc = "done"
    /\ prev_out # None
    /\ BuiltFromText
    /\ Len(roll) = 2
    /\ pos >= 2
    /\ roll = from_str_result[1].value

\* The words a Dice is to take from the source: its count once, or twice
\* when it rolls with Advantage or Disadvantage.
WordsOf(d) ==
    IF d.roll_type = "Regular" THEN d.number_of_dice_to_roll
    ELSE 2 * d.number_of_dice_to_roll

\* C15: while roll_dice_from_rng runs, the source stands as many words past
\* where the call found it as draws were taken; first_roll holds the faces
\* of the first words from there, in order; no value of the second roll is
\* drawn before first_roll has count values, and the second roll holds the
\* faces of the words after those count.  When the call has returned, the
\* source stands count words further for a Regular Dice and 2 * count for
\* an Advantage or Disadvantage one, and the RollResult holds the faces of
\* these words, first_roll then second_roll.
C15_ConsumesCountOrTwiceCount ==
    /\ pc \in {"first", "second"} =>
           LET count == CurDice.number_of_dice_to_roll
               n1 == Len(first_roll_results)
               n2 == IF second_roll_results = None THEN 0
                     ELSE Len(second_roll_results[1])
           IN  /\ pos = dice_start + n1 + n2
               /\ n1 <= count
               /\ n2 <= count
               /\ first_roll_results = FacesAt(CurDice, dice_start, n1)
               /\ pc = "first" => second_roll_results = None
               /\ second_roll_results # None =>
                      /\ n1 = count
                      /\ second_roll_results[1]
                             = FacesAt(CurDice, dice_start + count, n2)
    /\ pc = "dice" /\ Len(results) >= 1 =>
           LET d == CurSet[Len(results)]
               rr == results[Len(results)]
           IN  /\ pos = dice_start + WordsOf(d)
               /\ FlatDraws(rr) = FacesAt(d, dice_start, WordsOf(d))
               /\ Len(rr.first_roll) = d.number_of_dice_to_roll

\* C15 witness: an Advantage Dice of two dice has returned; it took four
\* words, first_roll the faces of the first two and second_roll those of
\* the next two, which differ from them.
C15_Witness ==
    /\ pc = "dice"
    /\ Len(results) = 1
    /\ CurSet[1].roll_type = "Advantage"
    /\ CurSet[1].number_of_dice_to_roll = 2
    /\ pos = dice_start + 4
    /\ results[1].first_roll = FacesAt(CurSet[1], dice_start, 2)
    /\ results[1].second_roll # None
    /\ results[1].second_roll[1] = FacesAt(CurSet[1], dice_start + 2, 2)
    /\ results[1].second_roll[1] # results[1].first_roll

\* A Dice that differs from d in its roll_type only.
WithMode(d, t) == [d EXCEPT !.roll_type = t]

\* The faces a Dice d makes of the n words of a tape after position from.
Faces(tape, d, from, n) ==
    [i \in 1..n |-> gen_range(tape[from + i], 1, d.sides + 1)]

\* roll_dice_from_rng as a whole: what it returns for the Dice d when the
\* source it is given produces the words of tape after position from, or
\* its panic.
roll_dice_at(checks, d, tape, from) ==
    LET count == d.number_of_dice_to_roll
        high == HighBound(checks, d)
    IN  IF count > 0 /\ ~high.ok THEN high
        ELSE IF count > 0 /\ ~(1 < high.val)
        THEN Panic("Uniform::sample_single: low >= high")
        ELSE LET first == Faces(tape, d, from, count)
                 second == IF RollsTwice(d)
                           THEN Some(Faces(tape, d, from + count, count))
                           ELSE None
                 total == DiceTotal(checks, d, first, second)
             IN  IF total.ok THEN Ok(RollResult(first, second, total.val))
                 ELSE total

\* The Dice that has just returned to roll_dice_set_from_rng.
JustRolled ==
    /\ pc = "dice"
    /\ Len(results) >= 1
    /\ CurSet[Len(results)].sides >= 1

\* The ways the source can go on: the stream as produced so far, followed
\* by any words up to the n-th.
Tapes(d, n) ==
    {stream \o w : w \in [1..(IF n > Len(stream) THEN n - Len(stream) ELSE 0)
                              -> Words(d.sides)]}

\* Whether three results that roll_dice_from_rng returned are those of one
\* first_roll, in the order Disadvantage, Regular, Advantage, the Regular
\* one being picked by one of the other two.
ModesOrdered(reg, adv, dis) ==
    /\ adv.first_roll = reg.first_roll
    /\ dis.first_roll = reg.first_roll
    /\ dis.result <= reg.result
    /\ reg.result <= adv.result
    /\ reg.result \in {adv.result, dis.result}

\* C16: take the Dice that has just been rolled and the source as it stood
\* when it was called, however it goes on.  The call returned what
\* roll_dice_from_rng returns from there for this Dice; and whenever it
\* returns from there for the three Dice that differ from this one in
\* roll_type only, the three have the same first_roll, the Disadvantage
\* result is at most the Regular one, the Regular one at most the Advantage
\* one, and the Regular result, the candidate of first_roll, is the one
\* Advantage or Disadvantage picked.
C16_ModesOrdered ==
    JustRolled =>
        LET d == CurSet[Len(results)]
            same == roll_dice_at(overflow_checks, d, stream, dice_start)
        IN  /\ same.ok
            /\ same.val = results[Len(results)]
            /\ \A tape \in Tapes(d, dice_start + 2 * d.number_of_dice_to_roll) :
                   LET reg == roll_dice_at(overflow_checks, WithMode(d, "Regular"),
                                           tape, dice_start)
                       adv == roll_dice_at(overflow_checks, WithMode(d, "Advantage"),
                                           tape, dice_start)
                       dis == roll_dice_at(overflow_checks,
                                           WithMode(d, "Disadvantage"), tape,
                                           dice_start)
                   IN  reg.ok /\ adv.ok /\ dis.ok =>
                           ModesOrdered(reg.val, adv.val, dis.val)

\* C16 witness: a Disadvantage Dice of two dice with a modifier has been
\* rolled, the three Dice all return from where it was called, and the
\* Advantage result is above the Regular one, which Disadvantage returned.
C16_Witness ==
    /\ JustRolled
    /\ CurSet[Len(results)].roll_type = "Disadvantage"
    /\ CurSet[Len(results)].number_of_dice_to_roll = 2
    /\ CurSet[Len(results)].modifier = Some(-1)
    /\ LET d == CurSet[Len(results)]
           reg == roll_dice_at(overflow_checks, WithMode(d, "Regular"),
                               stream, dice_start)
           adv == roll_dice_at(overflow_checks, WithMode(d, "Advantage"),
                               stream, dice_start)
           dis == roll_dice_at(overflow_checks, WithMode(d, "Disadvantage"),
                               stream, dice_start)
       IN  /\ reg.ok /\ adv.ok /\ dis.ok
           /\ reg.val.result < adv.val.result
           /\ dis.val.result = reg.val.result
           /\ results[Len(results)].result = dis.val.result

====
